---- MODULE Spec2Model ----
(***************************************************************************)
(* Model of server/backend.py: the friendship handlers, the capped         *)
(* per-channel message log, the notification outbox and presence.          *)
(*                                                                         *)
(* Every collection of the database is a sequence of documents in          *)
(* insertion order; find_one returns the first match and update_one        *)
(* changes the first match.  A request handler runs in a worker thread     *)
(* (async_mode='threading'): one step of a handler is one database         *)
(* operation together with the local computation that follows it.          *)
(***************************************************************************)
EXTENDS Integers, Sequences, FiniteSets, TLC

VARIABLES
    accounts,       \* collection accounts: <<[username, status]>>
    friends,        \* collection friends: <<[username, friends, pending_sent, pending_received]>>
    settings,       \* collection settings: <<[username, message_notifications, friend_request_notifications]>>
    notifications,  \* collection notifications: <<[username, type, peer, read]>>
    messages,       \* collection messages: <<[id, username, message, channel]>>
    nextId,         \* the next ObjectId of the messages collection
    sockets,        \* socket ids of the clients connected now
    active_users,   \* the dict active_users: <<[username, sid]>>, one entry per key, in insertion order
    emitted,        \* new_notification events emitted: {[nid, room]}
    th,             \* the worker threads: position and locals of the handler each runs
    calls,          \* REST calls started so far
    sent,           \* history: ids of the messages ever inserted, per channel
    mode,           \* "seq": handlers run one at a time; "conc": they interleave
    announced       \* history: {<<sid, username>>}, the user_online events of the open connections

vars == <<accounts, friends, settings, notifications, messages, nextId, sockets,
          active_users, emitted, th, calls, sent, mode, announced>>

-----------------------------------------------------------------------------
(* Bounds of the model, and the program's constant *)

\* REST calls to the friendship handlers in one behaviour
MaxCalls == 4

\* send_message calls in one behaviour
MaxSends == 3

\* line 294: the number of messages a channel keeps
KeepLast == 100

\* messages already stored in channel "general" when a messaging behaviour starts
Preload == KeepLast - 1

\* REST calls in one behaviour in which socket events take place too
MaxNotifyCalls == 2

\* register calls in one behaviour
MaxRegs == 3

\* REST calls in one behaviour in which notifications are marked as read
MaxReadCalls == 3

\* REST calls in one behaviour whose callers give any name
MaxNameCalls == 4

\* REST calls in one behaviour of messaging between connected friends
MaxChatCalls == 2

\* REST calls in one behaviour of the handlers that write the friendship graph
MaxGraphCalls == 3

Threads == {"t1", "t2"}

Sids == {"s1", "s2"}

\* socket ids when messages are sent too, and the users who announce themselves then
ChatSids == {"s1"}

ChatUsers == {"Ann", "Bob"}

Channels == {"general", "random"}

Texts == {"hi"}

\* every string a client may give as a username
Names == {"Ann", "ann", "Bob", "Cat"}

\* the same, and a name with a character that a regular expression reads as an
\* operator
AnyNames == Names \cup {"A.n"}

\* the usernames and passwords given to register
RegNames == {"Ann", "ann", " Bob", "Al", " "}

Passwords == {"secret", "pw", ""}

\* the keys of a settings document that the handlers read
SettingKeys == {"message_notifications", "friend_request_notifications"}

-----------------------------------------------------------------------------
(* Helpers: strings, lists and collections *)

\* str.lower()
Lower(name) ==
    CASE name = "Ann" -> "ann"
      [] name = "Bob" -> "bob"
      [] name = "Cat" -> "cat"
      [] name = "A.n" -> "a.n"
      [] OTHER        -> name

\* str.strip() on the usernames given to register
Strip(str) ==
    CASE str = " "    -> ""
      [] str = " Bob" -> "Bob"
      [] OTHER        -> str

\* len() of the strings a client gives as a username or a password
Length(str) ==
    CASE str = ""                               -> 0
      [] str \in {"Al", "pw"}                   -> 2
      [] str \in {"Ann", "ann", "Bob", "Cat", "A.n"} -> 3
      [] OTHER                                  -> 6

Range(s) == {s[i] : i \in 1..Len(s)}

\* the $addToSet update operator on an array field
AddToSet(list, x) == IF x \in Range(list) THEN list ELSE Append(list, x)

\* a $pull that removes nothing
PullNothing(list, x) == list

\* the $pull update operator on an array field
Pull(list, x) == SelectSeq(list, LAMBDA e : e # x)

\* index of the first document of coll whose username is name, 0 if there is none
IndexOf(coll, name) ==
    IF \E i \in 1..Len(coll) : coll[i].username = name
    THEN CHOOSE i \in 1..Len(coll) :
            /\ coll[i].username = name
            /\ \A j \in 1..(i - 1) : coll[j].username # name
    ELSE 0

\* the regular expression ^pattern$ with option i matches username: the pattern
\* is the name the client gave, put into the expression unescaped, so that the
\* dot of "A.n" stands for any one character
Matches(pattern, username) ==
    IF pattern = "A.n"
    THEN Lower(username) \in {"ann", "a.n"}
    ELSE Lower(username) = Lower(pattern)

\* index of the first account matching {'$regex': '^name$', '$options': 'i'}
IndexOfNoCase(coll, name) ==
    IF \E i \in 1..Len(coll) : Matches(name, coll[i].username)
    THEN CHOOSE i \in 1..Len(coll) :
            /\ Matches(name, coll[i].username)
            /\ \A j \in 1..(i - 1) : ~Matches(name, coll[j].username)
    ELSE 0

Usernames(coll) == {coll[i].username : i \in 1..Len(coll)}

\* the document register() and the handlers insert for a user without one
EmptyFriendsDoc(name) ==
    [username |-> name, friends |-> <<>>, pending_sent |-> <<>>, pending_received |-> <<>>]

\* the document register() inserts in settings
DefaultSettings(name) ==
    [username |-> name, message_notifications |-> TRUE, friend_request_notifications |-> TRUE]

\* friends.find_one({'username': name}); found is FALSE when it returns None
FindFriends(name) ==
    LET i == IndexOf(friends, name)
    IN  IF i = 0 THEN [found |-> FALSE, doc |-> EmptyFriendsDoc(name)]
                 ELSE [found |-> TRUE, doc |-> friends[i]]


\* the friends document of name in coll (an empty one if there is none)
DocIn(coll, name) ==
    LET i == IndexOf(coll, name)
    IN  IF i = 0 THEN EmptyFriendsDoc(name) ELSE coll[i]

\* friends.update_one({'username': name}, ...): the first match becomes doc, the
\* update applied to it; nothing changes when there is no match
UpdateFriends(coll, name, doc) ==
    LET i == IndexOf(coll, name)
    IN  IF i = 0 THEN coll ELSE [coll EXCEPT ![i] = doc]

-----------------------------------------------------------------------------
(* Worker threads *)

IdleThread ==
    [pc |-> "idle", op |-> "", sender |-> "", receiver |-> "", channel |-> "",
     message |-> "", sender_friends |-> EmptyFriendsDoc(""),
     receiver_friends |-> EmptyFriendsDoc(""), todo |-> <<>>, nid |-> 0,
     count |-> 0, oldest |-> {}, flist |-> <<>>, mid |-> 0, reply |-> "",
     pre |-> <<>>, made |-> <<>>]

\* the handler has built its response: return jsonify(...)
Done(rec, msg) == [rec EXCEPT !.pc = "done", !.reply = msg]

\* a handler may be entered: always with worker threads, and only when no other
\* handler runs when requests are served one at a time
CanStart(t) ==
    /\ th[t].pc = "idle"
    /\ mode = "seq" => \A u \in Threads : th[u].pc = "idle"

\* no REST handler is between its first and its last step
Quiescent == \A t \in Threads : th[t].pc \in {"idle", "done"}

\* return: the worker thread is free again
Return(t) ==
    /\ th[t].pc = "done"
    /\ th' = [th EXCEPT ![t] = IdleThread]
    /\ UNCHANGED <<accounts, friends, settings, notifications, messages, nextId,
                   sockets, active_users, emitted, calls, sent, mode, announced>>

-----------------------------------------------------------------------------
(* create_notification, lines 47-66 *)

Notification(username, type, peer) ==
    [username |-> username, type |-> type, peer |-> peer, read |-> FALSE]

\* the document of lines 49-57
NewNotification(n) ==
    [username |-> n.username, type |-> n.type, peer |-> n.peer, read |-> FALSE]

\* line 59: notifications.insert_one(notification)
CN_Insert(t) ==
    /\ th[t].pc = "cn59"
    /\ notifications' = Append(notifications, NewNotification(Head(th[t].todo)))
    /\ th' = [th EXCEPT ![t].pc = "cn63", ![t].nid = Len(notifications) + 1,
                        ![t].made = Append(@, NewNotification(Head(th[t].todo)))]
    /\ UNCHANGED <<accounts, friends, settings, messages, nextId, sockets,
                   active_users, emitted, calls, sent, mode, announced>>

\* line 63: username in active_users
IsActive(username) == IndexOf(active_users, username) # 0

\* Emits to the room of every active user
EmitsBroadcast(username, nid) ==
    {[nid |-> nid, room |-> active_users[i].sid] : i \in 1..Len(active_users)}

\* line 64: the event socketio.emit(..., room=active_users[username]) adds for the
\* notification nid of username; the test of line 63 and the emit are one step
Emits(username, nid) ==
    IF IsActive(username)
    THEN {[nid |-> nid, room |-> active_users[IndexOf(active_users, username)].sid]}
    ELSE {}

\* where a handler goes on after a create_notification call
AfterNotify(rec) ==
    IF Len(rec.todo) > 1
    THEN [rec EXCEPT !.todo = Tail(@), !.pc = "cn59", !.nid = 0]
    ELSE IF rec.op = "send_message"
         THEN [rec EXCEPT !.todo = <<>>, !.nid = 0,
                          !.pc = IF rec.flist = <<>> THEN "done" ELSE "sm306"]
         ELSE [rec EXCEPT !.todo = <<>>, !.nid = 0, !.pc = "done"]

\* lines 63-66: the live push, and back to the caller
CN_Emit(t) ==
    /\ th[t].pc = "cn63"
    /\ emitted' = emitted \cup Emits(Head(th[t].todo).username, th[t].nid)
    /\ th' = [th EXCEPT ![t] = AfterNotify(@)]
    /\ UNCHANGED <<accounts, friends, settings, notifications, messages, nextId,
                   sockets, active_users, calls, sent, mode, announced>>

-----------------------------------------------------------------------------
(* send_friend_request, lines 387-517 *)

\* SFR_Decide without the test of line 455 for a crossed request
SFR_DecideNoCross(rec) ==
    IF rec.receiver \in Range(rec.sender_friends.friends)
    THEN Done(rec, "Already friends with this user")
    ELSE IF rec.receiver \in Range(rec.sender_friends.pending_sent)
    THEN Done(rec, "Friend request already sent")
    ELSE [rec EXCEPT !.pc = "sfr488"]

\* SFR_Decide without the test of line 448 for a request already sent
SFR_DecideNoSent(rec) ==
    IF rec.receiver \in Range(rec.sender_friends.friends)
    THEN Done(rec, "Already friends with this user")
    ELSE IF rec.sender \in Range(rec.receiver_friends.pending_sent)
    THEN [rec EXCEPT !.pc = "sfr457"]
    ELSE [rec EXCEPT !.pc = "sfr488"]

\* lines 440-485: the checks made on the two documents read
SFR_Decide(rec) ==
    IF rec.receiver \in Range(rec.sender_friends.friends)
    THEN Done(rec, "Already friends with this user")
    ELSE IF rec.receiver \in Range(rec.sender_friends.pending_sent)
    THEN Done(rec, "Friend request already sent")
    ELSE IF rec.sender \in Range(rec.receiver_friends.pending_sent)
    THEN [rec EXCEPT !.pc = "sfr457"]
    ELSE [rec EXCEPT !.pc = "sfr488"]

\* lines 391-416: validation and the lookup of the receiver's account
SFR_Begin(s, r) ==
    LET rec == [IdleThread EXCEPT !.op = "send_friend_request", !.sender = s,
                                  !.receiver = r, !.pre = friends]
        i   == IndexOfNoCase(accounts, r)
    IN  IF s = "" \/ r = "" THEN Done(rec, "Sender and receiver are required")
        ELSE IF Lower(s) = Lower(r)
        THEN Done(rec, "Cannot send friend request to yourself")
        ELSE IF i = 0 THEN Done(rec, "User not found")
        ELSE [rec EXCEPT !.receiver = accounts[i].username, !.pc = "sfr419"]

SFR_Call(t, S, max) ==
    /\ CanStart(t)
    /\ calls < max
    /\ \E s \in S, r \in S : th' = [th EXCEPT ![t] = SFR_Begin(s, r)]
    /\ calls' = calls + 1
    /\ UNCHANGED <<accounts, friends, settings, notifications, messages, nextId,
                   sockets, active_users, emitted, sent, mode, announced>>

\* line 419: sender_friends = friends.find_one({'username': sender})
SFR_FindSender(t) ==
    /\ th[t].pc = "sfr419"
    /\ LET r == FindFriends(th[t].sender)
       IN  th' = [th EXCEPT ![t].sender_friends = r.doc,
                            ![t].pc = IF r.found THEN "sfr430" ELSE "sfr427"]
    /\ UNCHANGED <<accounts, friends, settings, notifications, messages, nextId,
                   sockets, active_users, emitted, calls, sent, mode, announced>>

\* line 427: friends.insert_one(sender_friends)
SFR_InsertSender(t) ==
    /\ th[t].pc = "sfr427"
    /\ friends' = Append(friends, th[t].sender_friends)
    /\ th' = [th EXCEPT ![t].pc = "sfr430"]
    /\ UNCHANGED <<accounts, settings, notifications, messages, nextId, sockets,
                   active_users, emitted, calls, sent, mode, announced>>

\* line 430: receiver_friends = friends.find_one({'username': receiver})
SFR_FindReceiver(t) ==
    /\ th[t].pc = "sfr430"
    /\ LET r   == FindFriends(th[t].receiver)
           rec == [th[t] EXCEPT !.receiver_friends = r.doc]
       IN  th' = [th EXCEPT ![t] = IF r.found THEN SFR_Decide(rec)
                                              ELSE [rec EXCEPT !.pc = "sfr438"]]
    /\ UNCHANGED <<accounts, friends, settings, notifications, messages, nextId,
                   sockets, active_users, emitted, calls, sent, mode, announced>>

\* line 438: friends.insert_one(receiver_friends)
SFR_InsertReceiver(t) ==
    /\ th[t].pc = "sfr438"
    /\ friends' = Append(friends, th[t].receiver_friends)
    /\ th' = [th EXCEPT ![t] = SFR_Decide(@)]
    /\ UNCHANGED <<accounts, settings, notifications, messages, nextId, sockets,
                   active_users, emitted, calls, sent, mode, announced>>

\* BefriendUpdate without the $pull
BefriendNoPull(doc, other, field) == [doc EXCEPT !.friends = AddToSet(@, other)]

\* BefriendUpdate that adds the friend on the side of the received request only
BefriendOneSide(doc, other, field) ==
    IF field = "pending_received"
    THEN [doc EXCEPT !.friends = AddToSet(@, other), !.pending_received = Pull(@, other)]
    ELSE [doc EXCEPT !.pending_sent = Pull(@, other)]

\* {'$addToSet': {'friends': other}, '$pull': {field: other}}, field a pending list
BefriendUpdate(doc, other, field) ==
    IF field = "pending_received"
    THEN [doc EXCEPT !.friends = AddToSet(@, other), !.pending_received = Pull(@, other)]
    ELSE [doc EXCEPT !.friends = AddToSet(@, other), !.pending_sent = Pull(@, other)]

\* lines 457-460: the sender's document of the auto-accept
SFR_AcceptSender(t) ==
    /\ th[t].pc = "sfr457"
    /\ friends' = UpdateFriends(friends, th[t].sender,
                                 BefriendUpdate(DocIn(friends, th[t].sender), th[t].receiver, "pending_received"))
    /\ th' = [th EXCEPT ![t].pc = "sfr461"]
    /\ UNCHANGED <<accounts, settings, notifications, messages, nextId, sockets,
                   active_users, emitted, calls, sent, mode, announced>>

\* lines 466-480 and 555-569: one friend_accepted notification for each of the two
AcceptedNotifications(sender, receiver) ==
    << Notification(sender, "friend_accepted", receiver),
       Notification(receiver, "friend_accepted", sender) >>

\* lines 461-464: the receiver's document of the auto-accept
SFR_AcceptReceiver(t) ==
    /\ th[t].pc = "sfr461"
    /\ friends' = UpdateFriends(friends, th[t].receiver,
                                 BefriendUpdate(DocIn(friends, th[t].receiver), th[t].sender, "pending_sent"))
    /\ th' = [th EXCEPT ![t].pc = "cn59",
                        ![t].todo = AcceptedNotifications(th[t].sender, th[t].receiver),
                        ![t].reply = "Friend request accepted! You are now friends"]
    /\ UNCHANGED <<accounts, settings, notifications, messages, nextId, sockets,
                   active_users, emitted, calls, sent, mode, announced>>

\* lines 488-491: {'$addToSet': {'pending_sent': receiver}} on the sender
SFR_PendSender(t) ==
    /\ th[t].pc = "sfr488"
    /\ friends' = UpdateFriends(friends, th[t].sender,
                                 [DocIn(friends, th[t].sender) EXCEPT !.pending_sent = AddToSet(@, th[t].receiver)])
    /\ th' = [th EXCEPT ![t].pc = "sfr492"]
    /\ UNCHANGED <<accounts, settings, notifications, messages, nextId, sockets,
                   active_users, emitted, calls, sent, mode, announced>>

\* lines 492-495: {'$addToSet': {'pending_received': sender}} on the receiver
SFR_PendReceiver(t) ==
    /\ th[t].pc = "sfr492"
    /\ friends' = UpdateFriends(friends, th[t].receiver,
                                 [DocIn(friends, th[t].receiver) EXCEPT !.pending_received = AddToSet(@, th[t].sender)])
    /\ th' = [th EXCEPT ![t].pc = "sfr498"]
    /\ UNCHANGED <<accounts, settings, notifications, messages, nextId, sockets,
                   active_users, emitted, calls, sent, mode, announced>>

\* settings.find_one({'username': name}) and settings.get(key, True) on it
SettingOn(name, key) ==
    LET i == IndexOf(settings, name)
    IN  /\ i # 0
        /\ IF key = "message_notifications"
           THEN settings[i].message_notifications
           ELSE settings[i].friend_request_notifications

\* lines 498-511: the friend_request notification, if the receiver wants it
SFR_ReadSettings(t) ==
    /\ th[t].pc = "sfr498"
    /\ th' = [th EXCEPT ![t] =
                IF SettingOn(th[t].receiver, "friend_request_notifications")
                THEN [@ EXCEPT !.pc = "cn59", !.reply = "Friend request sent",
                        !.todo = <<Notification(th[t].receiver, "friend_request",
                                                th[t].sender)>>]
                ELSE Done(@, "Friend request sent")]
    /\ UNCHANGED <<accounts, friends, settings, notifications, messages, nextId,
                   sockets, active_users, emitted, calls, sent, mode, announced>>

-----------------------------------------------------------------------------
(* accept_friend_request, lines 519-580 *)

\* lines 534-537: friends.find_one({'username': receiver, 'pending_received': sender})
RequestExists(receiver, sender) ==
    \E i \in 1..Len(friends) :
        /\ friends[i].username = receiver
        /\ sender \in Range(friends[i].pending_received)

\* AFR_Begin without the lookup of lines 534-543
AFR_BeginNoLookup(receiver, sender) ==
    LET rec == [IdleThread EXCEPT !.op = "accept_friend_request", !.sender = sender,
                                  !.receiver = receiver, !.pre = friends]
    IN  IF receiver = "" \/ sender = "" THEN Done(rec, "Receiver and sender are required")
        ELSE [rec EXCEPT !.pc = "afr546"]

\* lines 523-543: validation and the lookup of the request
AFR_Begin(receiver, sender) ==
    LET rec == [IdleThread EXCEPT !.op = "accept_friend_request", !.sender = sender,
                                  !.receiver = receiver, !.pre = friends]
    IN  IF receiver = "" \/ sender = "" THEN Done(rec, "Receiver and sender are required")
        ELSE IF ~RequestExists(receiver, sender) THEN Done(rec, "Friend request not found")
        ELSE [rec EXCEPT !.pc = "afr546"]

AFR_Call(t, S, max) ==
    /\ CanStart(t)
    /\ calls < max
    /\ \E receiver \in S, sender \in S : th' = [th EXCEPT ![t] = AFR_Begin(receiver, sender)]
    /\ calls' = calls + 1
    /\ UNCHANGED <<accounts, friends, settings, notifications, messages, nextId,
                   sockets, active_users, emitted, sent, mode, announced>>

\* AFR_UpdateReceiver that goes on to the notifications before the sender's
\* document is updated
AFR_UpdateReceiverNotify(t) ==
    /\ th[t].pc = "afr546"
    /\ friends' = UpdateFriends(friends, th[t].receiver,
                                 BefriendUpdate(DocIn(friends, th[t].receiver), th[t].sender, "pending_received"))
    /\ th' = [th EXCEPT ![t].pc = "cn59",
                        ![t].todo = AcceptedNotifications(th[t].sender, th[t].receiver),
                        ![t].reply = "You are now friends"]
    /\ UNCHANGED <<accounts, settings, notifications, messages, nextId, sockets,
                   active_users, emitted, calls, sent, mode, announced>>

\* lines 546-549: the receiver's document
AFR_UpdateReceiver(t) ==
    /\ th[t].pc = "afr546"
    /\ friends' = UpdateFriends(friends, th[t].receiver,
                                 BefriendUpdate(DocIn(friends, th[t].receiver), th[t].sender, "pending_received"))
    /\ th' = [th EXCEPT ![t].pc = "afr550"]
    /\ UNCHANGED <<accounts, settings, notifications, messages, nextId, sockets,
                   active_users, emitted, calls, sent, mode, announced>>

\* lines 550-553: the sender's document
AFR_UpdateSender(t) ==
    /\ th[t].pc = "afr550"
    /\ friends' = UpdateFriends(friends, th[t].sender,
                                 BefriendUpdate(DocIn(friends, th[t].sender), th[t].receiver, "pending_sent"))
    /\ th' = [th EXCEPT ![t].pc = "cn59",
                        ![t].todo = AcceptedNotifications(th[t].sender, th[t].receiver),
                        ![t].reply = "You are now friends"]
    /\ UNCHANGED <<accounts, settings, notifications, messages, nextId, sockets,
                   active_users, emitted, calls, sent, mode, announced>>

-----------------------------------------------------------------------------
(* decline_friend_request, lines 582-615 *)

\* lines 586-600: validation, and {'$pull': {'pending_received': sender}} on the receiver
DFR_Call(t, S, max) ==
    /\ CanStart(t)
    /\ calls < max
    /\ \E receiver \in S, sender \in S :
         LET rec == [IdleThread EXCEPT !.op = "decline_friend_request", !.sender = sender,
                                       !.receiver = receiver, !.pre = friends]
         IN  IF receiver = "" \/ sender = ""
             THEN /\ th' = [th EXCEPT ![t] = Done(rec, "Receiver and sender are required")]
                  /\ friends' = friends
             ELSE /\ th' = [th EXCEPT ![t] = [rec EXCEPT !.pc = "dfr601"]]
                  /\ friends' = UpdateFriends(friends, receiver,
                         [DocIn(friends, receiver) EXCEPT !.pending_received = Pull(@, sender)])
    /\ calls' = calls + 1
    /\ UNCHANGED <<accounts, settings, notifications, messages, nextId, sockets,
                   active_users, emitted, sent, mode, announced>>

\* DFR_UpdateSender that takes the receiver out of the sender's friends too
DFR_UpdateSenderUnfriend(t) ==
    /\ th[t].pc = "dfr601"
    /\ friends' = UpdateFriends(friends, th[t].sender,
                                 [DocIn(friends, th[t].sender) EXCEPT
                                     !.pending_sent = Pull(@, th[t].receiver),
                                     !.friends = Pull(@, th[t].receiver)])
    /\ th' = [th EXCEPT ![t] = Done(@, "Friend request declined")]
    /\ UNCHANGED <<accounts, settings, notifications, messages, nextId, sockets,
                   active_users, emitted, calls, sent, mode, announced>>

\* DFR_UpdateSender without its update
DFR_UpdateSenderSkip(t) ==
    /\ th[t].pc = "dfr601"
    /\ th' = [th EXCEPT ![t] = Done(@, "Friend request declined")]
    /\ UNCHANGED <<accounts, friends, settings, notifications, messages, nextId,
                   sockets, active_users, emitted, calls, sent, mode, announced>>

\* lines 601-609: {'$pull': {'pending_sent': receiver}} on the sender
DFR_UpdateSender(t) ==
    /\ th[t].pc = "dfr601"
    /\ friends' = UpdateFriends(friends, th[t].sender,
                                 [DocIn(friends, th[t].sender) EXCEPT !.pending_sent = Pull(@, th[t].receiver)])
    /\ th' = [th EXCEPT ![t] = Done(@, "Friend request declined")]
    /\ UNCHANGED <<accounts, settings, notifications, messages, nextId, sockets,
                   active_users, emitted, calls, sent, mode, announced>>

-----------------------------------------------------------------------------
(* send_message, lines 262-327 *)

\* messages.find({'channel': channel}), in insertion order
InChannel(coll, channel) == SelectSeq(coll, LAMBDA m : m.channel = channel)

\* line 293: messages.count_documents({'channel': channel})
CountDocuments(coll, channel) == Len(InChannel(coll, channel))

\* OverCap with the comparison off by one
OverCapLate(count) == count > KeepLast + 1

\* line 294: if message_count > 100
OverCap(count) == count > KeepLast

\* line 295: the argument of limit()
TrimLimit(count) == count - KeepLast

\* OldestIds with the sort descending: sort('_id', -1)
NewestIds(coll, channel, n) ==
    LET ids == {m.id : m \in Range(InChannel(coll, channel))}
    IN  {i \in ids : Cardinality({k \in ids : k > i}) < n}

\* line 295: find({'channel': channel}).sort('_id', 1).limit(n), as the set of _id
OldestIds(coll, channel, n) ==
    LET ids == {m.id : m \in Range(InChannel(coll, channel))}
    IN  {i \in ids : Cardinality({k \in ids : k < i}) < n}

\* line 296: delete_many({'_id': {'$in': ids}})
DeleteMany(coll, ids) == SelectSeq(coll, LAMBDA m : m.id \notin ids)

\* NewMessage that stores the default channel instead of the one given
NewMessageGeneral(id, username, message, channel) ==
    [id |-> id, username |-> username, message |-> message, channel |-> "general"]

\* lines 281-287: the document of the new message
NewMessage(id, username, message, channel) ==
    [id |-> id, username |-> username, message |-> message, channel |-> channel]

\* lines 266-279: validation and the lookup of the sender's account.  The profile
\* picture read at line 278 is constant here: no modelled handler changes it.
SM_Call(t, S, max) ==
    /\ CanStart(t)
    /\ calls < max
    /\ \E username \in S, message \in Texts, channel \in Channels :
         LET rec == [IdleThread EXCEPT !.op = "send_message", !.sender = username,
                                       !.message = message, !.channel = channel]
         IN  th' = [th EXCEPT ![t] =
                      IF username = "" \/ message = ""
                      THEN Done(rec, "Username and message are required")
                      ELSE [rec EXCEPT !.pc = "sm289"]]
    /\ calls' = calls + 1
    /\ UNCHANGED <<accounts, friends, settings, notifications, messages, nextId,
                   sockets, active_users, emitted, sent, mode, announced>>

\* line 289: messages.insert_one(new_message)
SM_Insert(t) ==
    /\ th[t].pc = "sm289"
    /\ messages' = Append(messages, NewMessage(nextId, th[t].sender, th[t].message,
                                               th[t].channel))
    /\ nextId' = nextId + 1
    /\ sent' = [sent EXCEPT ![th[t].channel] = Append(@, nextId)]
    /\ th' = [th EXCEPT ![t].pc = "sm293", ![t].mid = nextId]
    /\ UNCHANGED <<accounts, friends, settings, notifications, sockets, active_users,
                   emitted, calls, mode, announced>>

\* lines 293-294: count the channel's messages and compare with the cap
SM_Count(t) ==
    /\ th[t].pc = "sm293"
    /\ LET n == CountDocuments(messages, th[t].channel)
       IN  th' = [th EXCEPT ![t].count = n,
                            ![t].pc = IF OverCap(n) THEN "sm295" ELSE "sm302"]
    /\ UNCHANGED <<accounts, friends, settings, notifications, messages, nextId,
                   sockets, active_users, emitted, calls, sent, mode, announced>>

\* lines 295-296: the cursor over the oldest messages is read for the $in list
SM_FindOldest(t) ==
    /\ th[t].pc = "sm295"
    /\ th' = [th EXCEPT ![t].oldest = OldestIds(messages, th[t].channel,
                                                TrimLimit(th[t].count)),
                        ![t].pc = "sm296"]
    /\ UNCHANGED <<accounts, friends, settings, notifications, messages, nextId,
                   sockets, active_users, emitted, calls, sent, mode, announced>>

\* line 296: messages.delete_many(...)
SM_Delete(t) ==
    /\ th[t].pc = "sm296"
    /\ messages' = DeleteMany(messages, th[t].oldest)
    /\ th' = [th EXCEPT ![t].pc = "sm302", ![t].oldest = {}]
    /\ UNCHANGED <<accounts, friends, settings, notifications, nextId, sockets,
                   active_users, emitted, calls, sent, mode, announced>>

\* lines 302-304: user_friends_data = friends.find_one({'username': username})
SM_FindFriends(t) ==
    /\ th[t].pc = "sm302"
    /\ LET r == FindFriends(th[t].sender)
       IN  th' = [th EXCEPT ![t] =
                    IF r.found /\ r.doc.friends # <<>>
                    THEN [@ EXCEPT !.flist = r.doc.friends, !.pc = "sm306"]
                    ELSE Done(@, "Message sent successfully")]
    /\ UNCHANGED <<accounts, friends, settings, notifications, messages, nextId,
                   sockets, active_users, emitted, calls, sent, mode, announced>>

\* line 309: if friend not in active_users or friend != username
ShouldNotify(friend, username) == ~IsActive(friend) \/ friend # username

\* lines 304-316: one turn of the loop over the sender's friends
SM_FriendSettings(t) ==
    /\ th[t].pc = "sm306"
    /\ LET friend == Head(th[t].flist)
           rest   == Tail(th[t].flist)
       IN  th' = [th EXCEPT ![t] =
                    IF /\ SettingOn(friend, "message_notifications")
                       /\ ShouldNotify(friend, th[t].sender)
                    THEN [@ EXCEPT !.flist = rest, !.pc = "cn59",
                                   !.reply = "Message sent successfully",
                                   !.todo = <<Notification(friend, "message", th[t].sender)>>]
                    ELSE IF rest = <<>> THEN Done([@ EXCEPT !.flist = rest],
                                                  "Message sent successfully")
                    ELSE [@ EXCEPT !.flist = rest]]
    /\ UNCHANGED <<accounts, friends, settings, notifications, messages, nextId,
                   sockets, active_users, emitted, calls, sent, mode, announced>>

-----------------------------------------------------------------------------
(* register, lines 140-222 *)

\* NewAccount with the status of a connected user
NewAccountOnline(name) == [username |-> name, status |-> "online"]

\* lines 174-181: the document of the new account
NewAccount(name) == [username |-> name, status |-> "offline"]

Welcome(name) == Notification(name, "welcome", "")

\* lines 144-171: validation, and the case-insensitive lookup of line 167
R_Begin(username, password) ==
    LET rec == [IdleThread EXCEPT !.op = "register", !.sender = username]
    IN  IF username = "" \/ password = ""
        THEN Done(rec, "Username and password are required")
        ELSE IF Length(username) < 3
        THEN Done(rec, "Username must be at least 3 characters long")
        ELSE IF Length(password) < 6
        THEN Done(rec, "Password must be at least 6 characters long")
        ELSE IF IndexOfNoCase(accounts, username) # 0
        THEN Done(rec, "Username already exists")
        ELSE [rec EXCEPT !.pc = "reg183"]

R_Call(t) ==
    /\ CanStart(t)
    /\ calls < MaxRegs
    /\ \E username \in RegNames, password \in Passwords :
         th' = [th EXCEPT ![t] = R_Begin(Strip(username), password)]
    /\ calls' = calls + 1
    /\ UNCHANGED <<accounts, friends, settings, notifications, messages, nextId,
                   sockets, active_users, emitted, sent, mode, announced>>

\* line 183: accounts.insert_one(new_account)
R_InsertAccount(t) ==
    /\ th[t].pc = "reg183"
    /\ accounts' = Append(accounts, NewAccount(th[t].sender))
    /\ th' = [th EXCEPT ![t].pc = "reg186"]
    /\ UNCHANGED <<friends, settings, notifications, messages, nextId, sockets,
                   active_users, emitted, calls, sent, mode, announced>>

\* lines 186-195: settings.insert_one(...)
R_InsertSettings(t) ==
    /\ th[t].pc = "reg186"
    /\ settings' = Append(settings, DefaultSettings(th[t].sender))
    /\ th' = [th EXCEPT ![t].pc = "reg198"]
    /\ UNCHANGED <<accounts, friends, notifications, messages, nextId, sockets,
                   active_users, emitted, calls, sent, mode, announced>>

\* lines 198-211: friends.insert_one(...), then the welcome notification
R_InsertFriends(t) ==
    /\ th[t].pc = "reg198"
    /\ friends' = Append(friends, EmptyFriendsDoc(th[t].sender))
    /\ th' = [th EXCEPT ![t].pc = "cn59", ![t].todo = <<Welcome(th[t].sender)>>,
                        ![t].reply = "Account created successfully"]
    /\ UNCHANGED <<accounts, settings, notifications, messages, nextId, sockets,
                   active_users, emitted, calls, sent, mode, announced>>

-----------------------------------------------------------------------------
(* update_settings, lines 766-795 *)

\* {'$set': {key: value}} on a settings document
SetSetting(doc, key, value) ==
    IF key = "message_notifications"
    THEN [doc EXCEPT !.message_notifications = value]
    ELSE [doc EXCEPT !.friend_request_notifications = value]

\* lines 779-783: settings.update_one({'username': username}, {'$set': ...},
\* upsert=True).  A key the upserted document does not have reads as True
\* through settings.get(key, True), which is the value it has here.
UpdateSettings(coll, username, key, value) ==
    LET i == IndexOf(coll, username)
    IN  IF i = 0 THEN Append(coll, SetSetting(DefaultSettings(username), key, value))
                 ELSE [coll EXCEPT ![i] = SetSetting(@, key, value)]

\* lines 769-788: the whole handler, one database operation
US_Call(t, S, max) ==
    /\ CanStart(t)
    /\ calls < max
    /\ \E username \in S, key \in SettingKeys, value \in BOOLEAN :
         LET rec == [IdleThread EXCEPT !.op = "update_settings", !.sender = username]
         IN  IF username = ""
             THEN /\ th' = [th EXCEPT ![t] = Done(rec, "Username is required")]
                  /\ settings' = settings
             ELSE /\ th' = [th EXCEPT ![t] = Done(rec, "Settings updated successfully")]
                  /\ settings' = UpdateSettings(settings, username, key, value)
    /\ calls' = calls + 1
    /\ UNCHANGED <<accounts, friends, notifications, messages, nextId, sockets,
                   active_users, emitted, sent, mode, announced>>

-----------------------------------------------------------------------------
(* mark_notification_read and mark_all_notifications_read, lines 701-764 *)

\* MarkRead without the username in the filter
MarkReadAnyUser(coll, id, username) ==
    IF id \in 1..Len(coll) THEN [coll EXCEPT ![id].read = TRUE] ELSE coll

\* lines 715-718: update_one({'_id': id, 'username': username}, {'$set': {'read':
\* True}}); the _id of a notification is its position in the collection
MarkRead(coll, id, username) ==
    IF id \in 1..Len(coll) /\ coll[id].username = username
    THEN [coll EXCEPT ![id].read = TRUE]
    ELSE coll

\* lines 750-753: update_many({'username': username, 'read': False}, {'$set':
\* {'read': True}})
MarkAllRead(coll, username) ==
    [i \in 1..Len(coll) |->
        IF coll[i].username = username /\ ~coll[i].read
        THEN [coll[i] EXCEPT !.read = TRUE]
        ELSE coll[i]]

\* lines 704-729: the whole handler, one database operation; id 0 is the empty
\* string and Len(notifications) + 1 an _id that is not in the collection
MNR_Call(t, S, max) ==
    /\ CanStart(t)
    /\ calls < max
    /\ \E id \in 0..(Len(notifications) + 1), username \in S :
         LET rec == [IdleThread EXCEPT !.op = "mark_notification_read",
                                       !.sender = username, !.nid = id]
         IN  IF id = 0 \/ username = ""
             THEN /\ th' = [th EXCEPT ![t] =
                              Done(rec, "Notification ID and username are required")]
                  /\ notifications' = notifications
             ELSE /\ notifications' = MarkRead(notifications, id, username)
                  /\ th' = [th EXCEPT ![t] =
                              IF MarkRead(notifications, id, username) = notifications
                              THEN Done(rec, "Notification not found or already read")
                              ELSE Done(rec, "Notification marked as read")]
    /\ calls' = calls + 1
    /\ UNCHANGED <<accounts, friends, settings, messages, nextId, sockets,
                   active_users, emitted, sent, mode, announced>>

\* lines 740-758: the whole handler, one database operation
MAR_Call(t, S, max) ==
    /\ CanStart(t)
    /\ calls < max
    /\ \E username \in S :
         LET rec == [IdleThread EXCEPT !.op = "mark_all_notifications_read",
                                       !.sender = username]
         IN  IF username = ""
             THEN /\ th' = [th EXCEPT ![t] = Done(rec, "Username is required")]
                  /\ notifications' = notifications
             ELSE /\ notifications' = MarkAllRead(notifications, username)
                  /\ th' = [th EXCEPT ![t] = Done(rec, "Marked notifications as read")]
    /\ calls' = calls + 1
    /\ UNCHANGED <<accounts, friends, settings, messages, nextId, sockets,
                   active_users, emitted, sent, mode, announced>>

-----------------------------------------------------------------------------
(* Socket events, lines 69-111 *)

\* accounts.update_one({'username': username}, {'$set': {'status': status}})
SetStatus(coll, username, status) ==
    LET i == IndexOf(coll, username)
    IN  IF i = 0 THEN coll ELSE [coll EXCEPT ![i].status = status]

\* line 96: active_users[username] = sid
SetActive(dict, username, sid) ==
    LET i == IndexOf(dict, username)
    IN  IF i = 0 THEN Append(dict, [username |-> username, sid |-> sid])
                 ELSE [dict EXCEPT ![i].sid = sid]

\* lines 77-79 and 90: the first key whose value is sid is deleted, then break
DropFirst(dict, sid) ==
    IF \E i \in 1..Len(dict) : dict[i].sid = sid
    THEN LET i == CHOOSE i \in 1..Len(dict) :
                     /\ dict[i].sid = sid
                     /\ \A j \in 1..(i - 1) : dict[j].sid # sid
         IN  [k \in 1..(Len(dict) - 1) |-> IF k < i THEN dict[k] ELSE dict[k + 1]]
    ELSE dict

\* the username DropFirst removes ("" if none)
FirstUserOf(dict, sid) ==
    IF \E i \in 1..Len(dict) : dict[i].sid = sid
    THEN (dict[CHOOSE i \in 1..Len(dict) :
                  /\ dict[i].sid = sid
                  /\ \A j \in 1..(i - 1) : dict[j].sid # sid]).username
    ELSE ""

\* lines 69-71: a client connects
handle_connect(sid) ==
    /\ sid \notin sockets
    /\ sockets' = sockets \cup {sid}
    /\ UNCHANGED <<accounts, friends, settings, notifications, messages, nextId,
                   active_users, emitted, th, calls, sent, mode, announced>>

\* lines 73-90: a client disconnects
handle_disconnect(sid) ==
    /\ sid \in sockets
    /\ sockets' = sockets \ {sid}
    /\ active_users' = DropFirst(active_users, sid)
    /\ accounts' = SetStatus(accounts, FirstUserOf(active_users, sid), "offline")
    /\ announced' = {a \in announced : a[1] # sid}
    /\ UNCHANGED <<friends, settings, notifications, messages, nextId, emitted, th,
                   calls, sent, mode>>

\* lines 92-111: a connected client announces a username
handle_user_online(sid, username) ==
    /\ sid \in sockets
    /\ IF username # ""
       THEN /\ active_users' = SetActive(active_users, username, sid)
            /\ accounts' = SetStatus(accounts, username, "online")
            /\ announced' = announced \cup {<<sid, username>>}
       ELSE UNCHANGED <<active_users, accounts, announced>>
    /\ UNCHANGED <<friends, settings, notifications, messages, nextId, sockets,
                   emitted, th, calls, sent, mode>>

-----------------------------------------------------------------------------
(* Initial states: the stores as register() leaves them, lines 173-211 *)

\* the users U have registered; nothing else has happened
InitStores(U) ==
    /\ accounts = [i \in 1..Len(U) |-> NewAccount(U[i])]
    /\ settings = [i \in 1..Len(U) |-> DefaultSettings(U[i])]
    /\ friends = [i \in 1..Len(U) |-> EmptyFriendsDoc(U[i])]
    /\ notifications = [i \in 1..Len(U) |-> Welcome(U[i])]
    /\ sockets = {}
    /\ active_users = <<>>
    /\ announced = {}
    /\ emitted = {}
    /\ th = [t \in Threads |-> IdleThread]
    /\ calls = 0

NoMessages ==
    /\ messages = <<>>
    /\ nextId = 1
    /\ sent = [c \in Channels |-> <<>>]

-----------------------------------------------------------------------------
(* The friendship handlers, concurrently and one at a time *)

FriendStep(t) ==
    \/ SFR_Call(t, Usernames(accounts), MaxCalls)
    \/ SFR_FindSender(t)
    \/ SFR_FindReceiver(t)
    \/ SFR_AcceptSender(t)
    \/ SFR_AcceptReceiver(t)
    \/ SFR_PendSender(t)
    \/ SFR_PendReceiver(t)
    \/ SFR_ReadSettings(t)
    \/ AFR_Call(t, Usernames(accounts), MaxCalls)
    \/ AFR_UpdateReceiver(t)
    \/ AFR_UpdateSender(t)
    \/ DFR_Call(t, Usernames(accounts), MaxCalls)
    \/ DFR_UpdateSender(t)
    \/ CN_Insert(t)
    \/ CN_Emit(t)
    \/ Return(t)

NextFriends == \E t \in Threads : FriendStep(t)

InitFriends == InitStores(<<"Ann", "Bob">>) /\ NoMessages /\ mode = "conc"

SpecFriends == InitFriends /\ [][NextFriends]_vars

InitFriendsSeq == InitStores(<<"Ann", "Bob", "Cat">>) /\ NoMessages /\ mode = "seq"

SpecFriendsSeq == InitFriendsSeq /\ [][NextFriends]_vars

-----------------------------------------------------------------------------
(* The relationship of a pair of users, read from a friends collection *)

\* a and b are friends: one is in the other's friends list
AreFriends(coll, a, b) ==
    \/ b \in Range(DocIn(coll, a).friends)
    \/ a \in Range(DocIn(coll, b).friends)

\* a has a pending request to b
HasPending(coll, a, b) ==
    \/ b \in Range(DocIn(coll, a).pending_sent)
    \/ a \in Range(DocIn(coll, b).pending_received)

\* the pair {a, b} is in at most one relationship state
AtMostOneState(coll, a, b) ==
    /\ ~(AreFriends(coll, a, b) /\ HasPending(coll, a, b))
    /\ ~(AreFriends(coll, a, b) /\ HasPending(coll, b, a))
    /\ ~(HasPending(coll, a, b) /\ HasPending(coll, b, a))

OneStatePerPair ==
    \A a \in Usernames(accounts), b \in Usernames(accounts) :
        a # b => AtMostOneState(friends, a, b)

\* C1: after any sequence of completed send, accept and decline calls that ran
\* one at a time, every pair of distinct registered users is in at most one
\* relationship state (none, pending one way, pending the other way, friends).
C1_OneStateSequential == Quiescent => OneStatePerPair

\* a crossed request has made friends of Ann and Bob while Cat's request to Ann is pending
C1_Witness ==
    /\ Quiescent
    /\ calls >= 3
    /\ AreFriends(friends, "Ann", "Bob")
    /\ HasPending(friends, "Cat", "Ann")

\* C2: with concurrent handlers, the at-most-one relationship state holds once
\* all handlers have finished.
C2_OneStateConcurrent ==
    (\A t \in Threads : th[t].pc \in {"idle", "done"}) =>
        \A a \in Usernames(accounts) : \A b \in Usernames(accounts) \ {a} :
            /\ ~(HasPending(friends, a, b) /\ HasPending(friends, b, a))
            /\ ~(AreFriends(friends, a, b) /\ HasPending(friends, a, b))

\* C3: if B has a pending request to A when A calls send_friend_request(A, B),
\* the call succeeds, A and B are friends of each other, no pending entry
\* between them is left in any list, and no request from A to B is recorded.
C3_AutoAccept ==
    \A t \in Threads :
        LET a == th[t].sender
            b == th[t].receiver
        IN  (/\ th[t].pc = "done"
             /\ th[t].op = "send_friend_request"
             /\ a \in Range(DocIn(th[t].pre, b).pending_sent)
             /\ b \in Range(DocIn(th[t].pre, a).pending_received))
            => /\ th[t].reply = "Friend request accepted! You are now friends"
               /\ b \in Range(DocIn(friends, a).friends)
               /\ a \in Range(DocIn(friends, b).friends)
               /\ ~HasPending(friends, a, b)
               /\ ~HasPending(friends, b, a)

\* a send_friend_request call that crossed a pending request has completed
C3_Witness ==
    \E t \in Threads :
        /\ th[t].pc = "done"
        /\ th[t].op = "send_friend_request"
        /\ th[t].sender \in Range(DocIn(th[t].pre, th[t].receiver).pending_sent)
        /\ AreFriends(friends, th[t].sender, th[t].receiver)

\* the pending lists mirror each other
PendingMirrored ==
    \A a \in Usernames(friends), b \in Usernames(friends) :
        b \in Range(DocIn(friends, a).pending_sent)
            <=> a \in Range(DocIn(friends, b).pending_received)

\* C4: whenever no friend-request handler is in progress, B is in A's
\* pending_sent list if and only if A is in B's pending_received list.
C4_PendingMirrored == Quiescent => PendingMirrored

FriendsSymmetric ==
    \A a \in Usernames(friends), b \in Usernames(friends) :
        b \in Range(DocIn(friends, a).friends) <=> a \in Range(DocIn(friends, b).friends)

\* C5: whenever no friend-request handler is in progress, B is in A's friends
\* list if and only if A is in B's friends list.
C5_FriendsSymmetric == Quiescent => FriendsSymmetric

\* two users have become friends and every handler has finished
C5_Witness ==
    /\ Quiescent
    /\ \E a \in Usernames(friends), b \in Usernames(friends) :
          /\ b \in Range(DocIn(friends, a).friends)
          /\ a \in Range(DocIn(friends, b).friends)

-----------------------------------------------------------------------------
(* send_message, concurrently and one at a time *)

\* Ann has sent Preload messages to "general"; then Ann and Bob became friends
\* by a request of Ann that Bob accepted
Befriended ==
    /\ accounts = <<NewAccount("Ann"), NewAccount("Bob")>>
    /\ settings = <<DefaultSettings("Ann"), DefaultSettings("Bob")>>
    /\ friends = << [EmptyFriendsDoc("Ann") EXCEPT !.friends = <<"Bob">>],
                    [EmptyFriendsDoc("Bob") EXCEPT !.friends = <<"Ann">>] >>
    /\ notifications = << Welcome("Ann"), Welcome("Bob"),
                          Notification("Bob", "friend_request", "Ann"),
                          Notification("Ann", "friend_accepted", "Bob"),
                          Notification("Bob", "friend_accepted", "Ann") >>
    /\ sockets = {}
    /\ active_users = <<>>
    /\ announced = {}
    /\ emitted = {}
    /\ th = [t \in Threads |-> IdleThread]
    /\ calls = 0

Preloaded ==
    /\ messages = [i \in 1..Preload |-> NewMessage(i, "Ann", "hi", "general")]
    /\ nextId = Preload + 1
    /\ sent = [c \in Channels |-> IF c = "general" THEN [i \in 1..Preload |-> i] ELSE <<>>]

MessageStep(t) ==
    \/ SM_Call(t, Usernames(accounts), MaxSends)
    \/ SM_Insert(t)
    \/ SM_Count(t)
    \/ SM_FindOldest(t)
    \/ SM_Delete(t)
    \/ SM_FindFriends(t)
    \/ SM_FriendSettings(t)
    \/ CN_Insert(t)
    \/ CN_Emit(t)
    \/ Return(t)

NextMessages == \E t \in Threads : MessageStep(t)

InitMessages == Befriended /\ Preloaded /\ mode = "conc"

SpecMessages == InitMessages /\ [][NextMessages]_vars

InitMessagesSeq == Befriended /\ Preloaded /\ mode = "seq"

SpecMessagesSeq == InitMessagesSeq /\ [][NextMessages]_vars

-----------------------------------------------------------------------------
(* Notifications while clients connect, announce themselves and disconnect *)

NotifyStep(t) ==
    \/ SFR_Call(t, Usernames(accounts), MaxNotifyCalls)
    \/ SFR_FindSender(t)
    \/ SFR_FindReceiver(t)
    \/ SFR_AcceptSender(t)
    \/ SFR_AcceptReceiver(t)
    \/ SFR_PendSender(t)
    \/ SFR_PendReceiver(t)
    \/ SFR_ReadSettings(t)
    \/ AFR_Call(t, Usernames(accounts), MaxNotifyCalls)
    \/ AFR_UpdateReceiver(t)
    \/ AFR_UpdateSender(t)
    \/ CN_Insert(t)
    \/ CN_Emit(t)
    \/ Return(t)

SocketEvent(sid) ==
    \/ handle_connect(sid)
    \/ handle_disconnect(sid)
    \/ \E username \in Usernames(accounts) : handle_user_online(sid, username)

NextNotify ==
    \/ \E t \in Threads : NotifyStep(t)
    \/ \E sid \in Sids : SocketEvent(sid)

InitNotify == InitStores(<<"Ann", "Bob">>) /\ NoMessages /\ mode = "seq"

SpecNotify == InitNotify /\ [][NextNotify]_vars

-----------------------------------------------------------------------------
(* The message log *)

\* the _id of the stored messages of a channel, in insertion order
StoredIds(coll, channel) ==
    LET ms == InChannel(coll, channel) IN [i \in 1..Len(ms) |-> ms[i].id]

\* the last n entries of a sequence
LastN(seq, n) ==
    IF Len(seq) <= n THEN seq ELSE SubSeq(seq, Len(seq) - n + 1, Len(seq))

\* C6: whenever no send_message call is in progress, every channel holds at
\* most 100 stored messages, also after concurrent calls.
C6_Capped ==
    Quiescent => \A c \in Channels : CountDocuments(messages, c) <= KeepLast

\* more than 100 messages have been sent to "general", which holds 100 of them
C6_Witness ==
    /\ Quiescent
    /\ Len(sent["general"]) > KeepLast
    /\ CountDocuments(messages, "general") = KeepLast

\* C7: after n send_message calls to a channel that ran one at a time, the
\* channel holds exactly the last min(n, 100) messages sent to it, in insertion
\* order.
C7_KeepsNewest ==
    Quiescent => \A c \in Channels : StoredIds(messages, c) = LastN(sent[c], KeepLast)

\* 102 messages have been sent to "general" and the two oldest are gone
C7_Witness ==
    /\ Quiescent
    /\ Len(sent["general"]) = KeepLast + 2
    /\ StoredIds(messages, "general") = [i \in 1..KeepLast |-> i + 2]

\* C8: after concurrent send_message calls, a channel that has received at
\* least 100 messages still holds exactly 100: no call deletes one of the 100
\* newest messages of its channel.
C8_NoOverDelete ==
    Quiescent => \A c \in Channels :
        Len(sent[c]) >= KeepLast => StoredIds(messages, c) = LastN(sent[c], KeepLast)

\* the thread that takes the step from the current state to the next, if any
Stepped(t) == th'[t] # th[t]

\* C9: a send_message call to channel c appends exactly one message, to c, never
\* changes a stored message, and leaves the messages of every other channel as
\* they are: a step that changes the collection either appends the caller's new
\* message under a fresh _id or only removes messages of the caller's channel.
C9_AppendOnly ==
    [][ /\ messages' # messages =>
             /\ \E t \in Threads :
                   /\ Stepped(t) /\ th[t].op = "send_message"
                   /\ \A c \in Channels \ {th[t].channel} :
                         InChannel(messages', c) = InChannel(messages, c)
                   /\ IF th[t].pc = "sm289"
                      THEN /\ messages' = Append(messages,
                                  [id |-> th'[t].mid, username |-> th[t].sender,
                                   message |-> th[t].message, channel |-> th[t].channel])
                           /\ \A m \in Range(messages) : m.id # th'[t].mid
                      ELSE Range(messages') \subseteq Range(messages)
        /\ \A t \in Threads :
             Stepped(t) /\ th[t].op = "send_message" /\ th[t].pc # "done" =>
               /\ IF th[t].pc = "sm289"
                  THEN th[t].mid = 0 /\ th'[t].mid # 0 /\ messages' # messages
                  ELSE th'[t].mid = th[t].mid
               /\ th'[t].pc = "done" /\ th'[t].reply = "Message sent successfully"
                     => th'[t].mid # 0
      ]_vars

\* a call has trimmed "general" while "random" holds a message
C9_Witness ==
    /\ \E t \in Threads : th[t].pc = "done" /\ th[t].count > KeepLast
    /\ CountDocuments(messages, "random") > 0
    /\ CountDocuments(messages, "general") = KeepLast

-----------------------------------------------------------------------------
(* The notification outbox *)

\* C10: every call of create_notification for user u appends exactly one unread
\* notification of u, connected or not, and emits a new_notification event to u
\* if and only if u is a key of active_users when the call tests it.
C10_CreateNotification ==
    [][ /\ IF \E t \in Threads : th[t].pc = "cn59" /\ Stepped(t)
           THEN \E t \in Threads :
                  /\ th[t].pc = "cn59" /\ Stepped(t)
                  /\ Len(notifications') = Len(notifications) + 1
                  /\ SubSeq(notifications', 1, Len(notifications)) = notifications
                  /\ notifications'[Len(notifications')].username = Head(th[t].todo).username
                  /\ notifications'[Len(notifications')].type = Head(th[t].todo).type
                  /\ notifications'[Len(notifications')].read = FALSE
                  /\ th'[t].pc = "cn63"
           ELSE notifications' = notifications
        /\ IF \E t \in Threads : th[t].pc = "cn63" /\ Stepped(t)
           THEN \E t \in Threads :
                  LET u == Head(th[t].todo).username
                  IN  /\ th[t].pc = "cn63" /\ Stepped(t)
                      /\ notifications[th[t].nid].username = u
                      /\ (emitted' # emitted) <=> (\E i \in 1..Len(active_users) :
                                                      active_users[i].username = u)
                      /\ \A e \in emitted' \ emitted :
                            /\ e.nid = th[t].nid
                            /\ \E i \in 1..Len(active_users) :
                                  /\ active_users[i].username = u
                                  /\ active_users[i].sid = e.room
           ELSE emitted' = emitted
      ]_vars

\* one notification went out live and a later one, for a user who is not
\* connected, was only stored
C10_Witness ==
    /\ Quiescent
    /\ \E e \in emitted : e.nid < Len(notifications)
    /\ \A e \in emitted : e.nid # Len(notifications)
    /\ Len(notifications) >= 4

-----------------------------------------------------------------------------
(* Presence *)

\* username has been announced by a socket that is connected now
AnnouncedLive(username) == \E sid \in sockets : <<sid, username>> \in announced

\* C11: after any sequence of connect, user_online and disconnect events, a
\* username is a key of active_users if and only if some connected socket has
\* announced it, and active_users maps it to a connected socket that announced it.
C11_PresenceTracksConnections ==
    /\ \A username \in Names : IsActive(username) <=> AnnouncedLive(username)
    /\ \A i \in 1..Len(active_users) :
          /\ active_users[i].sid \in sockets
          /\ <<active_users[i].sid, active_users[i].username>> \in announced

-----------------------------------------------------------------------------
(* register on an empty database, concurrently *)

EmptyStores ==
    /\ accounts = <<>>
    /\ settings = <<>>
    /\ friends = <<>>
    /\ notifications = <<>>
    /\ sockets = {}
    /\ active_users = <<>>
    /\ announced = {}
    /\ emitted = {}
    /\ th = [t \in Threads |-> IdleThread]
    /\ calls = 0

RegisterStep(t) ==
    \/ R_Call(t)
    \/ R_InsertAccount(t)
    \/ R_InsertSettings(t)
    \/ R_InsertFriends(t)
    \/ CN_Insert(t)
    \/ CN_Emit(t)
    \/ Return(t)

NextRegister == \E t \in Threads : RegisterStep(t)

InitRegister == EmptyStores /\ NoMessages /\ mode = "conc"

SpecRegister == InitRegister /\ [][NextRegister]_vars

\* C13: after any sequence or interleaving of register calls no two accounts
\* have usernames that are equal ignoring case, and a call answered 'Username
\* already exists' has created nothing.
C13_UniqueUsernames ==
    /\ \A i \in 1..Len(accounts) : \A j \in 1..Len(accounts) :
          i # j => Lower(accounts[i].username) # Lower(accounts[j].username)
    /\ \A t \in Threads :
          th[t].pc = "done" /\ th[t].reply = "Username already exists"
            => th[t].made = <<>>

-----------------------------------------------------------------------------
(* Messages, friend requests and settings between users who connect and leave *)

\* Ann, Bob and Cat have registered; Ann sent a request to Bob, who accepted it;
\* Cat sent a request to Ann, which is pending
InitChat ==
    /\ accounts = <<NewAccount("Ann"), NewAccount("Bob"), NewAccount("Cat")>>
    /\ settings = <<DefaultSettings("Ann"), DefaultSettings("Bob"), DefaultSettings("Cat")>>
    /\ friends = << [EmptyFriendsDoc("Ann") EXCEPT !.friends = <<"Bob">>,
                                                   !.pending_received = <<"Cat">>],
                    [EmptyFriendsDoc("Bob") EXCEPT !.friends = <<"Ann">>],
                    [EmptyFriendsDoc("Cat") EXCEPT !.pending_sent = <<"Ann">>] >>
    /\ notifications = << Welcome("Ann"), Welcome("Bob"), Welcome("Cat"),
                          Notification("Bob", "friend_request", "Ann"),
                          Notification("Ann", "friend_accepted", "Bob"),
                          Notification("Bob", "friend_accepted", "Ann"),
                          Notification("Ann", "friend_request", "Cat") >>
    /\ sockets = {}
    /\ active_users = <<>>
    /\ announced = {}
    /\ emitted = {}
    /\ th = [t \in Threads |-> IdleThread]
    /\ calls = 0
    /\ NoMessages
    /\ mode = "seq"

\* send_message and update_settings while Ann and Bob connect and leave
ChatStep(t) ==
    \/ SM_Call(t, Usernames(accounts), MaxChatCalls)
    \/ SM_Insert(t)
    \/ SM_Count(t)
    \/ SM_FindFriends(t)
    \/ SM_FriendSettings(t)
    \/ US_Call(t, Usernames(accounts), MaxChatCalls)
    \/ CN_Insert(t)
    \/ CN_Emit(t)
    \/ Return(t)

ChatSocketEvent(sid) ==
    \/ handle_connect(sid)
    \/ handle_disconnect(sid)
    \/ \E username \in ChatUsers : handle_user_online(sid, username)

NextChat ==
    \/ \E t \in Threads : ChatStep(t)
    \/ \E sid \in ChatSids : ChatSocketEvent(sid)

SpecChat == InitChat /\ [][NextChat]_vars

\* every handler that creates notifications, while Ann and Bob connect and leave
OrderStep(t) ==
    \/ SM_Call(t, Usernames(accounts), MaxChatCalls)
    \/ SM_Insert(t)
    \/ SM_Count(t)
    \/ SM_FindFriends(t)
    \/ SM_FriendSettings(t)
    \/ SFR_Call(t, Usernames(accounts), MaxChatCalls)
    \/ SFR_FindSender(t)
    \/ SFR_FindReceiver(t)
    \/ SFR_AcceptSender(t)
    \/ SFR_AcceptReceiver(t)
    \/ SFR_PendSender(t)
    \/ SFR_PendReceiver(t)
    \/ SFR_ReadSettings(t)
    \/ AFR_Call(t, Usernames(accounts), MaxChatCalls)
    \/ AFR_UpdateReceiver(t)
    \/ AFR_UpdateSender(t)
    \/ CN_Insert(t)
    \/ CN_Emit(t)
    \/ Return(t)

NextOrder ==
    \/ \E t \in Threads : OrderStep(t)
    \/ \E sid \in ChatSids : ChatSocketEvent(sid)

SpecOrder == InitChat /\ [][NextOrder]_vars

\* the friendship handlers and update_settings, one at a time
SettingsStep(t) ==
    \/ SFR_Call(t, Usernames(accounts), MaxChatCalls)
    \/ SFR_FindSender(t)
    \/ SFR_FindReceiver(t)
    \/ SFR_AcceptSender(t)
    \/ SFR_AcceptReceiver(t)
    \/ SFR_PendSender(t)
    \/ SFR_PendReceiver(t)
    \/ SFR_ReadSettings(t)
    \/ AFR_Call(t, Usernames(accounts), MaxChatCalls)
    \/ AFR_UpdateReceiver(t)
    \/ AFR_UpdateSender(t)
    \/ US_Call(t, Usernames(accounts), MaxChatCalls)
    \/ CN_Insert(t)
    \/ CN_Emit(t)
    \/ Return(t)

NextSettings == \E t \in Threads : SettingsStep(t)

SpecSettings == InitChat /\ [][NextSettings]_vars

-----------------------------------------------------------------------------
(* The order of the steps of a handler *)

\* the stores hold what a handler writes before it creates the notification n
\* from within the call rec
StoredBefore(rec, n) ==
    CASE n.type = "friend_accepted" ->
            /\ n.peer \in Range(DocIn(friends, n.username).friends)
            /\ n.username \in Range(DocIn(friends, n.peer).friends)
      [] n.type = "friend_request" ->
            /\ n.username \in Range(DocIn(friends, n.peer).pending_sent)
            /\ n.peer \in Range(DocIn(friends, n.username).pending_received)
      [] n.type = "message" ->
            /\ rec.mid # 0
            /\ rec.mid \in Range(sent[rec.channel])
            /\ \E i \in 1..Len(messages) :
                  /\ messages[i].id = rec.mid
                  /\ messages[i].username = n.peer
      [] OTHER -> TRUE

\* C12: within a REST handler a friend_request or friend_accepted notification
\* is created only after both friends documents of the pair have been updated,
\* a message notification only after the message has been stored, and a live
\* push is made only after its notification has been inserted.
C12_StoreNotifyPush ==
    /\ \A t \in Threads :
          /\ th[t].pc = "cn59" => StoredBefore(th[t], Head(th[t].todo))
          /\ \A k \in 1..Len(th[t].made) : StoredBefore(th[t], th[t].made[k])
          /\ th[t].pc = "cn63" =>
                /\ th[t].nid \in 1..Len(notifications)
                /\ notifications[th[t].nid] = Head(th[t].todo)
    /\ \A e \in emitted : e.nid \in 1..Len(notifications)

\* a message notification has been pushed live and a later call is about to
\* create the friend_accepted notifications
C12_Witness ==
    /\ \E e \in emitted : notifications[e.nid].type = "message"
    /\ \E t \in Threads :
          th[t].pc = "cn59" /\ Head(th[t].todo).type = "friend_accepted"

-----------------------------------------------------------------------------
(* The friendship handlers called with any names, one at a time *)

\* Ann and Bob are registered; a caller may give "ann" or "Cat" too
RequestStep(t) ==
    \/ SFR_Call(t, Names, MaxNameCalls)
    \/ SFR_FindSender(t)
    \/ SFR_InsertSender(t)
    \/ SFR_FindReceiver(t)
    \/ SFR_AcceptSender(t)
    \/ SFR_AcceptReceiver(t)
    \/ SFR_PendSender(t)
    \/ SFR_PendReceiver(t)
    \/ SFR_ReadSettings(t)
    \/ AFR_Call(t, Names, MaxNameCalls)
    \/ AFR_UpdateReceiver(t)
    \/ AFR_UpdateSender(t)
    \/ DFR_Call(t, Names, MaxNameCalls)
    \/ DFR_UpdateSender(t)
    \/ CN_Insert(t)
    \/ CN_Emit(t)
    \/ Return(t)

NextRequests == \E t \in Threads : RequestStep(t)

InitRequests == InitStores(<<"Ann", "Bob">>) /\ NoMessages /\ mode = "seq"

SpecRequests == InitRequests /\ [][NextRequests]_vars

\* a is newly in the list of b in the next state
NewFriend(a, b) ==
    /\ a \in Range(DocIn(friends', b).friends)
    /\ a \notin Range(DocIn(friends, b).friends)

NewPending(a, b) ==
    \/ /\ b \in Range(DocIn(friends', a).pending_sent)
       /\ b \notin Range(DocIn(friends, a).pending_sent)
    \/ /\ a \in Range(DocIn(friends', b).pending_received)
       /\ a \notin Range(DocIn(friends, b).pending_received)

\* C14: accept_friend_request(receiver, sender) succeeds only when sender is in
\* receiver's pending_received list, and otherwise answers 'Friend request not
\* found' and leaves the friends documents and the notifications unchanged; in
\* sequential executions two users become friends only by an accept of a
\* request that is pending or by a crossed request, and a request becomes
\* pending only by a send_friend_request call of its sender.
C14_AcceptNeedsRequest ==
    [][ /\ \A t \in Threads :
             (/\ Stepped(t)
              /\ th'[t].pc = "done"
              /\ th'[t].op = "accept_friend_request")
             => IF th'[t].sender \in Range(DocIn(th'[t].pre, th'[t].receiver).pending_received)
                THEN /\ th'[t].reply = "You are now friends"
                     /\ th'[t].sender \in Range(DocIn(friends', th'[t].receiver).friends)
                     /\ th'[t].receiver \in Range(DocIn(friends', th'[t].sender).friends)
                ELSE /\ th'[t].reply = "Friend request not found"
                     /\ friends' = th'[t].pre
                     /\ friends' = friends
                     /\ notifications' = notifications
                     /\ th'[t].made = <<>>
        /\ \A a \in Names : \A b \in Names :
             NewFriend(a, b) =>
               \E t \in Threads :
                 /\ Stepped(t)
                 /\ {a, b} = {th[t].sender, th[t].receiver}
                 /\ IF th[t].op = "accept_friend_request"
                    THEN th[t].sender \in Range(DocIn(th[t].pre, th[t].receiver).pending_received)
                    ELSE /\ th[t].op = "send_friend_request"
                         /\ th[t].sender \in Range(DocIn(th[t].pre, th[t].receiver).pending_sent)
        /\ \A a \in Names : \A b \in Names :
             NewPending(a, b) =>
               \E t \in Threads :
                 /\ Stepped(t)
                 /\ th[t].op = "send_friend_request"
                 /\ th[t].sender = a
                 /\ th[t].receiver = b
      ]_vars

\* an accept has answered 'Friend request not found' for a pair that an earlier
\* accept made friends
C14_Witness ==
    \E t \in Threads :
        /\ th[t].pc = "done"
        /\ th[t].op = "accept_friend_request"
        /\ th[t].reply = "Friend request not found"
        /\ AreFriends(friends, th[t].sender, th[t].receiver)

\* the answer of send_friend_request when it rejects the call rec, "" when it
\* does not
SendRejection(rec) ==
    IF Lower(rec.sender) = Lower(rec.receiver)
    THEN "Cannot send friend request to yourself"
    ELSE IF \A i \in 1..Len(accounts) : Lower(accounts[i].username) # Lower(rec.receiver)
    THEN "User not found"
    ELSE IF rec.receiver \in Range(DocIn(rec.pre, rec.sender).friends)
    THEN "Already friends with this user"
    ELSE IF rec.receiver \in Range(DocIn(rec.pre, rec.sender).pending_sent)
    THEN "Friend request already sent"
    ELSE ""

\* C15: a send_friend_request call whose sender equals its receiver ignoring
\* case, whose receiver has no account, whose pair is already friends or whose
\* request was already sent is rejected with the matching answer, changes no
\* friends, pending_sent or pending_received list and creates no notification.
C15_RejectedSendChangesNothing ==
    \A t \in Threads :
        th[t].pc = "done" /\ th[t].op = "send_friend_request" =>
            /\ SendRejection(th[t]) # "" => th[t].reply = SendRejection(th[t])
            /\ th[t].reply \notin {"Friend request sent",
                                    "Friend request accepted! You are now friends"}
                 => /\ th[t].reply = SendRejection(th[t])
                    /\ friends = th[t].pre
                    /\ th[t].made = <<>>

\* a request that is pending has been sent again and was rejected
C15_Witness ==
    \E t \in Threads :
        /\ th[t].pc = "done"
        /\ th[t].op = "send_friend_request"
        /\ th[t].reply = "Friend request already sent"
        /\ HasPending(friends, th[t].sender, th[t].receiver)

\* list with every x taken out
Without(list, x) == SelectSeq(list, LAMBDA e : e # x)

\* what decline_friend_request(receiver, sender) of the call rec has done to
\* the friends documents and the notifications
DeclineEffect(rec) ==
    /\ rec.reply = "Friend request declined"
    /\ rec.made = <<>>
    /\ \A n \in Names :
          /\ DocIn(friends, n).friends = DocIn(rec.pre, n).friends
          /\ DocIn(friends, n).pending_received =
                IF n = rec.receiver
                THEN Without(DocIn(rec.pre, n).pending_received, rec.sender)
                ELSE DocIn(rec.pre, n).pending_received
          /\ DocIn(friends, n).pending_sent =
                IF n = rec.sender
                THEN Without(DocIn(rec.pre, n).pending_sent, rec.receiver)
                ELSE DocIn(rec.pre, n).pending_sent

NoRelation(coll, a, b) ==
    /\ ~AreFriends(coll, a, b)
    /\ ~HasPending(coll, a, b)
    /\ ~HasPending(coll, b, a)

\* a send_friend_request between two users without a relation is recorded as pending
SendIsRecorded(rec) ==
    (/\ SendRejection(rec) = ""
     /\ NoRelation(rec.pre, rec.sender, rec.receiver))
    => /\ rec.reply = "Friend request sent"
       /\ rec.receiver \in Range(DocIn(friends, rec.sender).pending_sent)
       /\ rec.sender \in Range(DocIn(friends, rec.receiver).pending_received)

\* C16 as stated: after any decline_friend_request(receiver, sender) the lists
\* are changed as described, no notification is created, the call succeeds,
\* and the pair has no relation.
C16_DeclineLeavesNoRelation ==
    \A t \in Threads :
        th[t].pc = "done" /\ th[t].op = "decline_friend_request" =>
            /\ DeclineEffect(th[t])
            /\ NoRelation(friends, th[t].sender, th[t].receiver)

\* C16: decline_friend_request(receiver, sender) removes sender from receiver's
\* pending_received and receiver from sender's pending_sent, leaves every
\* friends list and every other pending entry unchanged, creates no
\* notification and returns success even when there is no such request; after
\* it no request from sender to receiver is pending, the pair has no relation
\* unless they were friends or receiver had a request to sender pending, and
\* a send_friend_request between users without a relation is recorded as pending.
C16_DeclineFrame ==
    \A t \in Threads :
        /\ th[t].pc = "done" /\ th[t].op = "decline_friend_request" =>
              /\ DeclineEffect(th[t])
              /\ ~HasPending(friends, th[t].sender, th[t].receiver)
              /\ (/\ ~AreFriends(th[t].pre, th[t].sender, th[t].receiver)
                  /\ ~HasPending(th[t].pre, th[t].receiver, th[t].sender))
                 => NoRelation(friends, th[t].sender, th[t].receiver)
        /\ th[t].pc = "done" /\ th[t].op = "send_friend_request" => SendIsRecorded(th[t])

\* a pending request has been declined
C16_Witness ==
    \E t \in Threads :
        /\ th[t].pc = "done"
        /\ th[t].op = "decline_friend_request"
        /\ HasPending(th[t].pre, th[t].sender, th[t].receiver)
        /\ NoRelation(friends, th[t].sender, th[t].receiver)

-----------------------------------------------------------------------------
(* An accept and a decline of one pending request, each in a worker thread *)

\* Ann and Bob have registered and Ann has sent a request to Bob
InitRace ==
    /\ accounts = <<NewAccount("Ann"), NewAccount("Bob")>>
    /\ settings = <<DefaultSettings("Ann"), DefaultSettings("Bob")>>
    /\ friends = << [EmptyFriendsDoc("Ann") EXCEPT !.pending_sent = <<"Bob">>],
                    [EmptyFriendsDoc("Bob") EXCEPT !.pending_received = <<"Ann">>] >>
    /\ notifications = << Welcome("Ann"), Welcome("Bob"),
                          Notification("Bob", "friend_request", "Ann") >>
    /\ sockets = {}
    /\ active_users = <<>>
    /\ announced = {}
    /\ emitted = {}
    /\ th = [t \in Threads |-> IdleThread]
    /\ calls = 0
    /\ NoMessages
    /\ mode = "conc"

\* each worker thread serves one request
RaceStep(t) ==
    \/ AFR_Call(t, Usernames(accounts), Cardinality(Threads))
    \/ AFR_UpdateReceiver(t)
    \/ AFR_UpdateSender(t)
    \/ DFR_Call(t, Usernames(accounts), Cardinality(Threads))
    \/ DFR_UpdateSender(t)
    \/ CN_Insert(t)
    \/ CN_Emit(t)

NextRace == \E t \in Threads : RaceStep(t)

SpecRace == InitRace /\ [][NextRace]_vars

\* the thread runs, or has run, the handler op for the request of Ann to Bob
OnRequest(rec, op) ==
    rec.op = op /\ rec.receiver = "Bob" /\ rec.sender = "Ann"

\* C17: when accept_friend_request(B, A) and decline_friend_request(B, A)
\* interleave on one pending request from A to B, the final state is either
\* that A and B are friends with no pending entry or that they have no
\* relation, and the pair is never friends when the accept answered 'Friend
\* request not found'.
C17_AcceptOrDecline ==
    \A ta \in Threads : \A td \in Threads :
        (OnRequest(th[ta], "accept_friend_request")
            /\ OnRequest(th[td], "decline_friend_request"))
        => /\ (th[ta].pc = "done" /\ th[ta].reply = "Friend request not found")
                => ~AreFriends(friends, "Ann", "Bob")
           /\ (th[ta].pc = "done" /\ th[td].pc = "done")
                => \/ /\ "Bob" \in Range(DocIn(friends, "Ann").friends)
                      /\ "Ann" \in Range(DocIn(friends, "Bob").friends)
                      /\ ~HasPending(friends, "Ann", "Bob")
                      /\ ~HasPending(friends, "Bob", "Ann")
                      /\ th[ta].reply = "You are now friends"
                   \/ /\ NoRelation(friends, "Ann", "Bob")
                      /\ th[ta].reply = "Friend request not found"

\* both handlers have finished, and the decline was called between the two
\* updates of the accept
C17_Witness ==
    \E ta \in Threads : \E td \in Threads :
        /\ OnRequest(th[ta], "accept_friend_request") /\ th[ta].pc = "done"
        /\ OnRequest(th[td], "decline_friend_request") /\ th[td].pc = "done"
        /\ DocIn(th[td].pre, "Bob").friends = <<"Ann">>
        /\ DocIn(th[td].pre, "Ann").friends = <<>>
        /\ AreFriends(friends, "Ann", "Bob")

-----------------------------------------------------------------------------
(* Who is notified *)

\* name has a settings document in which key is not switched off
Wants(name, key) ==
    \E i \in 1..Len(settings) :
        /\ settings[i].username = name
        /\ IF key = "message_notifications"
           THEN settings[i].message_notifications
           ELSE settings[i].friend_request_notifications

\* made holds exactly one friend_accepted notification for each of a and b
OneAcceptedEach(made, a, b) ==
    /\ Len(made) = 2
    /\ \A k \in 1..2 : made[k].type = "friend_accepted"
    /\ {<<made[k].username, made[k].peer>> : k \in 1..2} = {<<a, b>>, <<b, a>>}

\* C18: an accept_friend_request or an auto-accepting send_friend_request that
\* makes a pair friends creates exactly one friend_accepted notification for
\* each of the two users, whatever their settings; a plain send_friend_request
\* creates exactly one friend_request notification for the receiver if the
\* receiver has a settings document whose friend_request_notifications is not
\* false and none otherwise, and never a notification for the sender.
C18_FriendNotifications ==
    \A t \in Threads :
        th[t].pc = "done" =>
            /\ (th[t].op = "accept_friend_request" /\ th[t].reply = "You are now friends")
                 => OneAcceptedEach(th[t].made, th[t].sender, th[t].receiver)
            /\ (/\ th[t].op = "send_friend_request"
                /\ th[t].reply = "Friend request accepted! You are now friends")
                 => OneAcceptedEach(th[t].made, th[t].sender, th[t].receiver)
            /\ (th[t].op = "send_friend_request" /\ th[t].reply = "Friend request sent")
                 => th[t].made =
                      IF Wants(th[t].receiver, "friend_request_notifications")
                      THEN << [username |-> th[t].receiver, type |-> "friend_request",
                               peer |-> th[t].sender, read |-> FALSE] >>
                      ELSE <<>>
            /\ (th[t].op = "send_friend_request" /\ th[t].reply = "Friend request sent")
                 => /\ \A k \in 1..Len(th[t].made) : th[t].made[k].username # th[t].sender
                    /\ HasPending(friends, th[t].sender, th[t].receiver)

\* C19: send_message notifies only a friend who is not active: when the loop of
\* send_message decides to notify a friend, that friend is not a key of
\* active_users.
C19_NotifyOnlyInactive ==
    [][ \A t \in Threads :
          (/\ th[t].op = "send_message"
           /\ th[t].pc = "sm306"
           /\ th'[t].pc = "cn59")
          => ~IsActive(Head(th'[t].todo).username)
      ]_vars

\* C20: a send_message call of u creates message notifications only, for
\* users who are in u's friends list, at most one per friend, only for friends
\* whose settings document exists with message_notifications not false, and
\* never for u or for a user with whom u has only a pending request.
C20_FanOut ==
    \A t \in Threads :
        th[t].op = "send_message" =>
            LET u    == th[t].sender
                made == IF th[t].pc = "cn59" THEN Append(th[t].made, Head(th[t].todo))
                                             ELSE th[t].made
            IN  /\ \A k \in 1..Len(made) :
                      /\ made[k].type = "message"
                      /\ made[k].peer = u
                      /\ made[k].username \in Range(DocIn(friends, u).friends)
                      /\ Wants(made[k].username, "message_notifications")
                      /\ made[k].username # u
                      /\ ~HasPending(friends, u, made[k].username)
                      /\ ~HasPending(friends, made[k].username, u)
                /\ \A j \in 1..Len(made) : \A k \in 1..Len(made) :
                      j # k => made[j].username # made[k].username

-----------------------------------------------------------------------------
(* register on an empty database, one call at a time *)

InitRegisterSeq == EmptyStores /\ NoMessages /\ mode = "seq"

SpecRegisterSeq == InitRegisterSeq /\ [][NextRegister]_vars

\* the documents of coll with the username name
DocsOf(coll, name) == SelectSeq(coll, LAMBDA d : d.username = name)

\* C21: a successful register creates exactly one account with status
\* 'offline', one settings document with the defaults, one friends document
\* with empty lists and one unread 'welcome' notification for the new user; a
\* register call rejected by validation changes no store.
C21_RegisterEffects ==
    [][ \A t \in Threads :
          (/\ Stepped(t)
           /\ th'[t].op = "register"
           /\ th'[t].pc = "done")
          => LET u == th'[t].sender
             IN  IF th'[t].reply = "Account created successfully"
                 THEN /\ DocsOf(accounts', u) = <<[username |-> u, status |-> "offline"]>>
                      /\ DocsOf(settings', u) =
                            <<[username |-> u, message_notifications |-> TRUE,
                               friend_request_notifications |-> TRUE]>>
                      /\ DocsOf(friends', u) =
                            <<[username |-> u, friends |-> <<>>, pending_sent |-> <<>>,
                               pending_received |-> <<>>]>>
                      /\ DocsOf(notifications', u) =
                            <<[username |-> u, type |-> "welcome", peer |-> "",
                               read |-> FALSE]>>
                      /\ th'[t].made = DocsOf(notifications', u)
                      /\ Len(accounts') = Len(settings')
                      /\ Len(accounts') = Len(friends')
                      /\ Len(accounts') = Len(notifications')
                 ELSE /\ th'[t].reply \in
                            {"Username and password are required",
                             "Username must be at least 3 characters long",
                             "Password must be at least 6 characters long",
                             "Username already exists"}
                      /\ accounts' = accounts
                      /\ settings' = settings
                      /\ friends' = friends
                      /\ notifications' = notifications
                      /\ th'[t].made = <<>>
      ]_vars

\* a register call has succeeded after a call that validation rejected
C21_Witness ==
    \E t \in Threads :
        /\ th[t].pc = "done"
        /\ th[t].op = "register"
        /\ th[t].reply = "Account created successfully"
        /\ calls = 2
        /\ Len(accounts) = 1

-----------------------------------------------------------------------------
(* Reading notifications while requests are accepted, concurrently *)

ReadStep(t) ==
    \/ MNR_Call(t, Usernames(accounts), MaxReadCalls)
    \/ MAR_Call(t, Usernames(accounts), MaxReadCalls)
    \/ AFR_Call(t, Usernames(accounts), MaxReadCalls)
    \/ AFR_UpdateReceiver(t)
    \/ AFR_UpdateSender(t)
    \/ CN_Insert(t)
    \/ CN_Emit(t)
    \/ Return(t)

NextRead == \E t \in Threads : ReadStep(t)

InitRead ==
    /\ accounts = <<NewAccount("Ann"), NewAccount("Bob")>>
    /\ settings = <<DefaultSettings("Ann"), DefaultSettings("Bob")>>
    /\ friends = << [EmptyFriendsDoc("Ann") EXCEPT !.pending_sent = <<"Bob">>],
                    [EmptyFriendsDoc("Bob") EXCEPT !.pending_received = <<"Ann">>] >>
    /\ notifications = << Welcome("Ann"), Welcome("Bob"),
                          Notification("Bob", "friend_request", "Ann") >>
    /\ sockets = {}
    /\ active_users = <<>>
    /\ announced = {}
    /\ emitted = {}
    /\ th = [t \in Threads |-> IdleThread]
    /\ calls = 0
    /\ NoMessages
    /\ mode = "conc"

SpecRead == InitRead /\ [][NextRead]_vars

\* C22: the read flag of a notification only moves from False to True:
\* mark_notification_read(id, u) sets it on the notification with that id only
\* when it belongs to u and changes no other notification,
\* mark_all_notifications_read(u) sets it on exactly u's notifications, and no
\* step sets read back to False, changes another field or deletes a notification.
C22_ReadOnlyRises ==
    [][ /\ Len(notifications') >= Len(notifications)
        /\ \A i \in 1..Len(notifications) :
              \/ notifications'[i] = notifications[i]
              \/ /\ ~notifications[i].read
                 /\ notifications'[i] =
                       [username |-> notifications[i].username,
                        type |-> notifications[i].type,
                        peer |-> notifications[i].peer, read |-> TRUE]
                 /\ \E t \in Threads :
                       /\ Stepped(t)
                       /\ th'[t].op \in {"mark_notification_read",
                                         "mark_all_notifications_read"}
                       /\ th'[t].sender = notifications[i].username
        /\ \A t \in Threads :
              (/\ Stepped(t) /\ th'[t].pc = "done"
               /\ th'[t].op = "mark_notification_read")
              => /\ Len(notifications') = Len(notifications)
                 /\ \A i \in 1..Len(notifications) :
                       notifications'[i].read =
                          (\/ notifications[i].read
                           \/ /\ i = th'[t].nid
                              /\ notifications[i].username = th'[t].sender)
        /\ \A t \in Threads :
              (/\ Stepped(t) /\ th'[t].pc = "done"
               /\ th'[t].op = "mark_all_notifications_read")
              => /\ Len(notifications') = Len(notifications)
                 /\ \A i \in 1..Len(notifications) :
                       notifications'[i].read =
                          (\/ notifications[i].read
                           \/ notifications[i].username = th'[t].sender)
      ]_vars

\* Ann has read her welcome notification and has then asked to mark one of
\* Bob's, which stays unread
C22_Witness ==
    \E t \in Threads :
        /\ th[t].pc = "done"
        /\ th[t].op = "mark_notification_read"
        /\ th[t].sender = "Ann"
        /\ th[t].nid = 2
        /\ th[t].reply = "Notification not found or already read"
        /\ notifications[1].read
        /\ ~notifications[2].read

-----------------------------------------------------------------------------
(* Permanence *)

\* C23: once B is in A's friends list it stays there in every later state: no
\* step of send_friend_request, accept_friend_request or decline_friend_request
\* removes an entry from a friends list or a friends document.
C23_FriendshipPermanent ==
    [][ /\ Len(friends') >= Len(friends)
        /\ \A i \in 1..Len(friends) :
              /\ friends'[i].username = friends[i].username
              /\ Range(friends[i].friends) \subseteq Range(friends'[i].friends)
      ]_vars

\* a decline and a send between two friends have finished, and they are friends
C23_Witness ==
    /\ \E t \in Threads :
          /\ th[t].pc = "done"
          /\ th[t].op = "decline_friend_request"
          /\ AreFriends(th[t].pre, th[t].sender, th[t].receiver)
          /\ th[t].receiver \in Range(DocIn(friends, th[t].sender).friends)
          /\ th[t].sender \in Range(DocIn(friends, th[t].receiver).friends)
    /\ \E t \in Threads :
          /\ th[t].pc = "done"
          /\ th[t].op = "send_friend_request"
          /\ th[t].reply = "Already friends with this user"

-----------------------------------------------------------------------------
(* get_friends, lines 617-662 *)

\* lines 621-629: validation and friends.find_one({'username': username})
GF_Call(t, S, max) ==
    /\ CanStart(t)
    /\ calls < max
    /\ \E username \in S :
         LET rec == [IdleThread EXCEPT !.op = "get_friends", !.sender = username,
                                       !.pre = friends]
             r   == FindFriends(username)
         IN  th' = [th EXCEPT ![t] =
                      IF username = "" THEN Done(rec, "Username is required")
                      ELSE IF r.found THEN Done(rec, "success")
                      ELSE [rec EXCEPT !.sender_friends = r.doc, !.pc = "gf632"]]
    /\ calls' = calls + 1
    /\ UNCHANGED <<accounts, friends, settings, notifications, messages, nextId,
                   sockets, active_users, emitted, sent, mode, announced>>

\* lines 632-638: friends.insert_one of an empty document, read back and returned
GF_Insert(t) ==
    /\ th[t].pc = "gf632"
    /\ friends' = Append(friends, th[t].sender_friends)
    /\ th' = [th EXCEPT ![t] = Done(th[t], "success")]
    /\ UNCHANGED <<accounts, settings, notifications, messages, nextId, sockets,
                   active_users, emitted, calls, sent, mode, announced>>

-----------------------------------------------------------------------------
(* The handlers that write the friendship graph, called with any names *)

\* Ann and Bob are registered; a caller may give "ann", "Cat" or "A.n" too
GraphStep(t) ==
    \/ SFR_Call(t, AnyNames, MaxGraphCalls)
    \/ SFR_FindSender(t)
    \/ SFR_InsertSender(t)
    \/ SFR_FindReceiver(t)
    \/ SFR_AcceptSender(t)
    \/ SFR_AcceptReceiver(t)
    \/ SFR_PendSender(t)
    \/ SFR_PendReceiver(t)
    \/ SFR_ReadSettings(t)
    \/ AFR_Call(t, AnyNames, MaxGraphCalls)
    \/ AFR_UpdateReceiver(t)
    \/ AFR_UpdateSender(t)
    \/ DFR_Call(t, AnyNames, MaxGraphCalls)
    \/ DFR_UpdateSender(t)
    \/ GF_Call(t, AnyNames, MaxGraphCalls)
    \/ GF_Insert(t)
    \/ SM_Call(t, AnyNames, MaxGraphCalls)
    \/ SM_Insert(t)
    \/ SM_Count(t)
    \/ SM_FindFriends(t)
    \/ SM_FriendSettings(t)
    \/ CN_Insert(t)
    \/ CN_Emit(t)
    \/ Return(t)

NextGraph == \E t \in Threads : GraphStep(t)

InitGraph == InitStores(<<"Ann", "Bob">>) /\ NoMessages /\ mode = "seq"

SpecGraph == InitGraph /\ [][NextGraph]_vars

\* the names in the three lists of a friends document
Related(doc) ==
    Range(doc.friends) \cup Range(doc.pending_sent) \cup Range(doc.pending_received)

\* C24: in every reachable state no username, compared ignoring case, is in
\* its own friends, pending_sent or pending_received list, for any sequence of
\* send, accept and decline calls, also when sender and receiver name one user
\* in different letter case.
C24_NoSelfRelation ==
    \A i \in 1..Len(friends) :
        \A name \in Related(friends[i]) :
            Lower(name) # Lower(friends[i].username)

\* C25: every friends document, and every name in a friends, pending_sent or
\* pending_received list, is the exact username of a registered account, after
\* any sequence of send, accept, decline and get_friends calls, also when the
\* sender or the username given is unregistered or differs in letter case from
\* the registered name.
C25_OnlyRegistered ==
    \A i \in 1..Len(friends) :
        /\ friends[i].username \in Usernames(accounts)
        /\ Related(friends[i]) \subseteq Usernames(accounts)

====
